---- MODULE Spec2Model ----
(***************************************************************************)
(* Temporal analysis engine of the Digital Twin EVM dashboard              *)
(* (complete_dashboard_with_all_tabs.py).                                  *)
(*                                                                         *)
(* quality_data is the inspection table: a sequence of rows                *)
(* [pk, stepId, inspectedAt, status].  inspectedAt is a timestamp in       *)
(* seconds; the model draws whole-hour timestamps, so that                 *)
(* total_seconds() / 3600 is an exact integer.  Percentages rounded to one *)
(* decimal are held as integers in tenths of a percent (33.3 is 333) and   *)
(* are rounded from the exact quotient; the float64 error of the division  *)
(* is not represented.                                                     *)
(*                                                                         *)
(* DataFrame.sort_values('inspectedAt') uses the default kind='quicksort', *)
(* which is not stable: the order of rows that carry the same inspectedAt  *)
(* is a nondeterministic choice here.                                      *)
(***************************************************************************)
EXTENDS Integers, Sequences, FiniteSets

\* ---------------------------------------------------------------- bounds
MaxLen == 3
MaxTime == 2
MaxPasses == 1200
MaxFailures == 3
MaxOffered == 2

\* ------------------------------------------------------------- constants
SecondsPerHour == 3600
HoursPerDay == 24
PercentScale == 100
RateScale == 10

PKs == {"K1", "K2"}
StepIdOrder == <<"S1", "S2">>
StepIds == {StepIdOrder[i] : i \in DOMAIN StepIdOrder}
Statuses == {"Pass", "Fail", "Offered"}
Timestamps == {h * SecondsPerHour : h \in 0..MaxTime}

InspectionEvent == [pk : PKs, stepId : StepIds, inspectedAt : Timestamps, status : Statuses]

VARIABLES pc, quality_data, failed_inspections, i,
          response_times, rework_cycles, step_performance, result, counts

\* the module globals of lines 163-166, by name, once assigned
VARIABLE temporal

\* the task table, the module globals of lines 134-160 by name once
\* assigned, the position in those lines, the number of times they ran,
\* and what the simulation tab and charts last produced
VARIABLES task_progress, scalars, epc, runs, sim

\* the time series table, and per request handler its position and locals
VARIABLES time_series, hpc, hloc

engine_vars == <<pc, quality_data, failed_inspections, i,
                 response_times, rework_cycles, step_performance, result, counts>>
evm_vars == <<task_progress, scalars, epc, runs, sim>>
series_vars == <<time_series, hpc, hloc>>

vars == <<pc, quality_data, failed_inspections, i,
          response_times, rework_cycles, step_performance, result, counts,
          temporal, task_progress, scalars, epc, runs, sim, time_series, hpc, hloc>>

\* no name assigned yet
Unassigned == [n \in {} |-> 0]
\* a table with no column and no row
NoTable == [columns |-> <<>>, data |-> <<>>]

\* the parts of the program a specification does not run
EngineIdle ==
    /\ pc = "idle"
    /\ quality_data = <<>>
    /\ failed_inspections = <<>>
    /\ i = 1
    /\ response_times = <<>>
    /\ rework_cycles = <<>>
    /\ step_performance = <<>>
    /\ result = [response_df |-> <<>>, rework_df |-> <<>>, step_performance_df |-> <<>>]
    /\ counts = [stepId |-> "S1", Total_Inspections |-> 0, Passes |-> 0, Failures |-> 0]
    /\ temporal = Unassigned
EvmIdle ==
    /\ task_progress = <<>>
    /\ scalars = Unassigned
    /\ epc = "idle"
    /\ runs = 0
    /\ sim = Unassigned
SeriesIdle ==
    /\ time_series = NoTable
    /\ hpc = Unassigned
    /\ hloc = Unassigned

NoResult == [response_df |-> <<>>, rework_df |-> <<>>, step_performance_df |-> <<>>]
NoCounts == [stepId |-> "S1", Total_Inspections |-> 0, Passes |-> 0, Failures |-> 0]

\* ---------------------------------------------------------------- helpers
Rows == DOMAIN quality_data

\* mutant: every event that is not a Pass is taken as a failure
FailRowsAs == {k \in Rows : quality_data[k].status # "Pass"}

\* quality_data[quality_data['status'] == 'Fail']
FailRows == {k \in Rows : quality_data[k].status = "Fail"}

\* mutant: the rows are taken in any order, without sorting
SortedOrdersAs(S) ==
    {s \in [1..Cardinality(S) -> S] : \A a, b \in DOMAIN s : a # b => s[a] # s[b]}

\* the orders .sort_values('inspectedAt') can give to a set of rows
SortedOrders(S) ==
    {s \in [1..Cardinality(S) -> S] :
        /\ \A a, b \in DOMAIN s : a # b => s[a] # s[b]
        /\ \A a, b \in DOMAIN s :
              a < b => quality_data[s[a]].inspectedAt <= quality_data[s[b]].inspectedAt}

\* mutant: .iloc[0] without the sort, any row of the selection
FirstRowsAs(S) == S

\* the rows .sort_values('inspectedAt').iloc[0] can return
FirstRows(S) ==
    {n \in S : \A m \in S : quality_data[n].inspectedAt <= quality_data[m].inspectedAt}

\* mutant: the difference is taken the other way round
ElapsedHoursAs(a, b) == (b - a) \div SecondsPerHour

\* (a - b).total_seconds() / 3600
ElapsedHours(a, b) == (a - b) \div SecondsPerHour

\* hours / 24, kept as an exact fraction
Days(hours) == [num |-> hours, den |-> HoursPerDay]

\* mutant: >= instead of > in the time filter
SubsequentAs(f) ==
    {n \in Rows : /\ quality_data[n].pk = quality_data[f].pk
                  /\ quality_data[n].inspectedAt >= quality_data[f].inspectedAt}

\* lines 62-65: later events of the same component
Subsequent(f) ==
    {n \in Rows : /\ quality_data[n].pk = quality_data[f].pk
                  /\ quality_data[n].inspectedAt > quality_data[f].inspectedAt}

\* mutant: the status filter is missing
SubsequentPassesAs(f) ==
    {n \in Rows : /\ quality_data[n].pk = quality_data[f].pk
                  /\ quality_data[n].inspectedAt > quality_data[f].inspectedAt}

\* mutant: the time filter is missing
SubsequentPassesAnyTime(f) ==
    {n \in Rows : /\ quality_data[n].pk = quality_data[f].pk
                  /\ quality_data[n].status = "Pass"}

\* mutant: every later event that is not a Fail resolves the failure
SubsequentPassesNotFail(f) ==
    {n \in Rows : /\ quality_data[n].pk = quality_data[f].pk
                  /\ quality_data[n].inspectedAt > quality_data[f].inspectedAt
                  /\ quality_data[n].status # "Fail"}

\* lines 82-86: later Pass events of the same component
SubsequentPasses(f) ==
    {n \in Rows : /\ quality_data[n].pk = quality_data[f].pk
                  /\ quality_data[n].inspectedAt > quality_data[f].inspectedAt
                  /\ quality_data[n].status = "Pass"}

\* mutant: a later Fail is not counted as an intermediate inspection
IntermediateNoFail(f, p) ==
    {n \in Rows : /\ quality_data[n].pk = quality_data[f].pk
                  /\ quality_data[n].inspectedAt > quality_data[f].inspectedAt
                  /\ quality_data[n].inspectedAt < quality_data[p].inspectedAt
                  /\ quality_data[n].status # "Fail"}

\* mutant: <= instead of < at the resolving Pass
IntermediateAs(f, p) ==
    {n \in Rows : /\ quality_data[n].pk = quality_data[f].pk
                  /\ quality_data[n].inspectedAt > quality_data[f].inspectedAt
                  /\ quality_data[n].inspectedAt <= quality_data[p].inspectedAt}

\* lines 93-97: events strictly between the failure and the resolving Pass
Intermediate(f, p) ==
    {n \in Rows : /\ quality_data[n].pk = quality_data[f].pk
                  /\ quality_data[n].inspectedAt > quality_data[f].inspectedAt
                  /\ quality_data[n].inspectedAt < quality_data[p].inspectedAt}

\* lines 70-77
ResponseRecord(f, n) ==
    LET failure == quality_data[f]
        next_inspection == quality_data[n]
        response_time == ElapsedHours(next_inspection.inspectedAt, failure.inspectedAt)
    IN [pk |-> failure.pk,
        stepId |-> failure.stepId,
        failure_date |-> failure.inspectedAt,
        response_time_hours |-> response_time,
        response_time_days |-> Days(response_time),
        next_status |-> next_inspection.status]

\* lines 99-108
ReworkRecord(f, p) ==
    LET failure == quality_data[f]
        next_pass == quality_data[p]
        rework_time == ElapsedHours(next_pass.inspectedAt, failure.inspectedAt)
        intermediate == Intermediate(f, p)
    IN [pk |-> failure.pk,
        stepId |-> failure.stepId,
        failure_date |-> failure.inspectedAt,
        resolution_date |-> next_pass.inspectedAt,
        rework_time_hours |-> rework_time,
        rework_time_days |-> Days(rework_time),
        intermediate_inspections |-> Cardinality(intermediate),
        total_attempts |-> Cardinality(intermediate) + 1]

\* mutant: the digits after the first decimal are cut off
RoundHalfEvenAs(num, den) == num \div den

\* Series.round(1) is numpy's round: to the nearest, halves to the even neighbour
RoundHalfEven(num, den) ==
    LET q == num \div den
        r == num % den
    IN IF 2 * r < den THEN q
       ELSE IF 2 * r > den THEN q + 1
       ELSE IF q % 2 = 0 THEN q ELSE q + 1

\* (part / total * 100).round(1), in tenths of a percent; pandas divides 0 by 0
\* to NaN without raising
NaN == "NaN"
Rate(part, total) ==
    IF total = 0 THEN NaN ELSE RoundHalfEven(part * PercentScale * RateScale, total)

\* mutant: every event that is not a Pass is counted as a failure
AggAs(step) ==
    [stepId |-> step,
     Total_Inspections |-> Cardinality({k \in Rows : quality_data[k].stepId = step}),
     Passes |-> Cardinality({k \in Rows : /\ quality_data[k].stepId = step
                                          /\ quality_data[k].status = "Pass"}),
     Failures |-> Cardinality({k \in Rows : /\ quality_data[k].stepId = step
                                            /\ quality_data[k].status # "Pass"})]

\* lines 111-113: groupby('stepId').agg(count, #Pass, #Fail) for one group
Agg(step) ==
    [stepId |-> step,
     Total_Inspections |-> Cardinality({k \in Rows : quality_data[k].stepId = step}),
     Passes |-> Cardinality({k \in Rows : /\ quality_data[k].stepId = step
                                          /\ quality_data[k].status = "Pass"}),
     Failures |-> Cardinality({k \in Rows : /\ quality_data[k].stepId = step
                                            /\ quality_data[k].status = "Fail"})]

\* lines 115-117: the rate columns of one row
StepRow(c) ==
    [stepId |-> c.stepId,
     Total_Inspections |-> c.Total_Inspections,
     Passes |-> c.Passes,
     Failures |-> c.Failures,
     Pass_Rate |-> Rate(c.Passes, c.Total_Inspections),
     Failure_Rate |-> Rate(c.Failures, c.Total_Inspections)]

\* groupby sorts the group keys; only the stepIds that occur form a group
IsGroupKey(step) == \E k \in Rows : quality_data[k].stepId = step
\* mutant: a group for every known stepId, as for a categorical key
GroupKeysAs == StepIdOrder
GroupKeys == SelectSeq(StepIdOrder, IsGroupKey)

\* ---------------------------------------------------------------- actions
Init ==
    /\ pc = "start"
    /\ \E n \in 0..MaxLen : quality_data \in [1..n -> InspectionEvent]
    /\ failed_inspections = <<>>
    /\ i = 1
    /\ response_times = <<>>
    /\ rework_cycles = <<>>
    /\ step_performance = <<>>
    /\ result = NoResult
    /\ counts = NoCounts
    /\ temporal = Unassigned
    /\ EvmIdle
    /\ SeriesIdle

\* line 58
SelectFailures ==
    /\ pc = "start"
    /\ failed_inspections' \in SortedOrders(FailRows)
    /\ pc' = "response"
    /\ i' = 1
    /\ UNCHANGED <<quality_data, response_times, rework_cycles, step_performance, result, counts>>
    /\ UNCHANGED <<temporal, evm_vars, series_vars>>

\* lines 61-77, one iteration of the loop
ResponseIteration ==
    /\ pc = "response"
    /\ i <= Len(failed_inspections)
    /\ LET f == failed_inspections[i]
           subsequent == Subsequent(f)
       IN IF subsequent # {}
             THEN \E n \in FirstRows(subsequent) :
                     response_times' = Append(response_times, ResponseRecord(f, n))
             ELSE response_times' = response_times
    /\ i' = i + 1
    /\ UNCHANGED <<pc, quality_data, failed_inspections, rework_cycles, step_performance,
                   result, counts>>
    /\ UNCHANGED <<temporal, evm_vars, series_vars>>

\* lines 61, 79-80: the first loop is exhausted
ResponseLoopEnd ==
    /\ pc = "response"
    /\ i > Len(failed_inspections)
    /\ pc' = "rework"
    /\ i' = 1
    /\ UNCHANGED <<quality_data, failed_inspections, response_times, rework_cycles,
                   step_performance, result, counts>>
    /\ UNCHANGED <<temporal, evm_vars, series_vars>>

\* lines 81-108, one iteration of the loop
ReworkIteration ==
    /\ pc = "rework"
    /\ i <= Len(failed_inspections)
    /\ LET f == failed_inspections[i]
           subsequent_passes == SubsequentPasses(f)
       IN IF subsequent_passes # {}
             THEN \E p \in FirstRows(subsequent_passes) :
                     rework_cycles' = Append(rework_cycles, ReworkRecord(f, p))
             ELSE rework_cycles' = rework_cycles
    /\ i' = i + 1
    /\ UNCHANGED <<pc, quality_data, failed_inspections, response_times, step_performance,
                   result, counts>>
    /\ UNCHANGED <<temporal, evm_vars, series_vars>>

\* lines 81, 110: the second loop is exhausted
ReworkLoopEnd ==
    /\ pc = "rework"
    /\ i > Len(failed_inspections)
    /\ pc' = "steps"
    /\ i' = 1
    /\ UNCHANGED <<quality_data, failed_inspections, response_times, rework_cycles,
                   step_performance, result, counts>>
    /\ UNCHANGED <<temporal, evm_vars, series_vars>>

\* lines 111-118
StepPerformance ==
    /\ pc = "steps"
    /\ step_performance' = [k \in DOMAIN GroupKeys |-> StepRow(Agg(GroupKeys[k]))]
    /\ pc' = "return"
    /\ UNCHANGED <<quality_data, failed_inspections, i, response_times, rework_cycles,
                   result, counts>>
    /\ UNCHANGED <<temporal, evm_vars, series_vars>>

\* lines 124, 127
Return ==
    /\ pc = "return"
    /\ result' = [response_df |-> response_times,
                  rework_df |-> rework_cycles,
                  step_performance_df |-> step_performance]
    /\ pc' = "done"
    /\ UNCHANGED <<quality_data, failed_inspections, i, response_times, rework_cycles,
                   step_performance, counts>>
    /\ UNCHANGED <<temporal, evm_vars, series_vars>>

Next ==
    \/ SelectFailures
    \/ ResponseIteration
    \/ ResponseLoopEnd
    \/ ReworkIteration
    \/ ReworkLoopEnd
    \/ StepPerformance
    \/ Return

Spec == Init /\ [][Next]_vars

\* ------------------------------------------------------------------------
\* The rate columns as a function of one group's counts (lines 115-117),
\* for groups larger than an enumerated log can hold.
InitRates ==
    /\ pc = "counted"
    /\ quality_data = <<>>
    /\ failed_inspections = <<>>
    /\ i = 1
    /\ response_times = <<>>
    /\ rework_cycles = <<>>
    /\ step_performance = <<>>
    /\ result = NoResult
    /\ temporal = Unassigned
    /\ EvmIdle
    /\ SeriesIdle
    /\ \E p \in 0..MaxPasses, f \in 0..MaxFailures, o \in 0..MaxOffered :
          /\ p + f + o > 0
          /\ counts = [stepId |-> "S1", Total_Inspections |-> p + f + o,
                       Passes |-> p, Failures |-> f]

RateColumns ==
    /\ pc = "counted"
    /\ step_performance' = <<StepRow(counts)>>
    /\ pc' = "rated"
    /\ UNCHANGED <<quality_data, failed_inspections, i, response_times, rework_cycles,
                   result, counts>>
    /\ UNCHANGED <<temporal, evm_vars, series_vars>>

NextRates == RateColumns

SpecRates == InitRates /\ [][NextRates]_vars

\* ------------------------------------------------------------------------
\* Temporal performance metrics (lines 163-166), computed from the returned
\* tables.  A number that need not be whole is the fraction num / den.
Frac(n, d) == [num |-> n, den |-> d]

\* the literal 0 the guards fall back to
Zero == Frac(0, 1)

\* the names bound to column sums
TotalNames == {"final_ev_traditional", "final_ev_quality", "final_ac", "total_rework_cost"}

\* mutant: a column sum is added to the value the name already holds
AssignAs(f, name, v) ==
    [n \in DOMAIN f \cup {name} |->
        IF n = name
        THEN IF name \in DOMAIN f /\ name \in TotalNames THEN f[n] + v ELSE v
        ELSE f[n]]

\* f with name bound to v: the assignment  name = v
Assign(f, name, v) ==
    [n \in DOMAIN f \cup {name} |-> IF n = name THEN v ELSE f[n]]

RECURSIVE SumSeq(_)
\* the sum of a sequence of integers
SumSeq(s) == IF s = <<>> THEN 0 ELSE s[1] + SumSeq(Tail(s))

\* df[column].mean(), the column given as the numerators and the common
\* denominator of its values; a table without rows has nothing to average
Mean(numerators, den) ==
    IF numerators = <<>> THEN Frac(0, 0)
    ELSE Frac(SumSeq(numerators), den * Len(numerators))

ResponseHours(df) == [k \in DOMAIN df |-> df[k].response_time_hours]
ReworkHours(df) == [k \in DOMAIN df |-> df[k].rework_time_hours]

\* mutant: the mean is taken without the test for an empty table
AvgResponseTimeAs(response_df) == Mean(ResponseHours(response_df), 1)

\* line 163
AvgResponseTime(response_df) ==
    IF response_df # <<>> THEN Mean(ResponseHours(response_df), 1) ELSE Zero

\* line 164: the mean of rework_time_days
AvgReworkTime(rework_df) ==
    IF rework_df # <<>> THEN Mean(ReworkHours(rework_df), HoursPerDay) ELSE Zero

\* line 165
TotalQualityDelay(rework_df) ==
    IF rework_df # <<>> THEN SumSeq(ReworkHours(rework_df)) ELSE 0

\* line 166
FirstTimeReworkSuccess(rework_df) ==
    IF rework_df = <<>> THEN Zero
    ELSE Frac(Cardinality({k \in DOMAIN rework_df : rework_df[k].total_attempts = 1})
                 * PercentScale,
              Len(rework_df))

\* lines 163-166
TemporalMetrics ==
    /\ pc = "done"
    /\ temporal' =
          [n \in {"avg_response_time", "avg_rework_time", "total_quality_delay",
                  "first_time_rework_success"} |->
              CASE n = "avg_response_time" -> AvgResponseTime(result.response_df)
                [] n = "avg_rework_time" -> AvgReworkTime(result.rework_df)
                [] n = "total_quality_delay" -> TotalQualityDelay(result.rework_df)
                [] n = "first_time_rework_success" -> FirstTimeReworkSuccess(result.rework_df)]
    /\ pc' = "metrics"
    /\ UNCHANGED <<quality_data, failed_inspections, i, response_times, rework_cycles,
                   step_performance, result, counts>>
    /\ UNCHANGED <<evm_vars, series_vars>>

NextTemporal == Next \/ TemporalMetrics

\* the engine followed by the temporal metrics, as at module load
SpecTemporal == Init /\ [][NextTemporal]_vars

\* ------------------------------------------------------------------------
\* Project scalar metrics (lines 134-160), computed from the task table at
\* module load.  Money is held in cents.
MaxTasks == 2
MaxRuns == 2

\* line 134: 445245.20
total_budget == 44524520

\* line 136
project_duration_days == 16

\* the values a task record's columns are drawn from
EvTraditionalValues == {22500000}
EvQualityValues == {0, 22000000}
ActualCostValues == {0, 22500000}
ReworkCostValues == {0, 500000}
FailureCounts == {0, 1, 2}

TaskRecord ==
    [earned_value_traditional : EvTraditionalValues,
     earned_value_quality_gated : EvQualityValues,
     actual_cost : ActualCostValues,
     rework_cost : ReworkCostValues,
     failure_count : FailureCounts]

TaskTables == UNION {[1..n -> TaskRecord] : n \in 0..MaxTasks}

Column(t, col) == [k \in DOMAIN t |-> t[k][col]]

\* mutant: the last record is left out of the sum
TotalAs(t, col) == SumSeq(Column(SubSeq(t, 1, Len(t) - 1), col))

\* task_progress[col].sum()
Total(t, col) == SumSeq(Column(t, col))

Sign(a) == IF a > 0 THEN 1 ELSE IF a < 0 THEN 0 - 1 ELSE 0

\* a / b on floats: a zero divisor gives inf, -inf or nan (num 1, -1, 0 over
\* den 0) without raising
Div(a, b) == IF b = 0 THEN Frac(Sign(a), 0) ELSE Frac(a, b)

InitEVM ==
    /\ EngineIdle
    /\ temporal = Unassigned
    /\ SeriesIdle
    /\ task_progress \in TaskTables
    /\ scalars = Unassigned
    /\ epc = "start"
    /\ runs = 0
    /\ sim = Unassigned

\* lines 134-142
LoadTotals ==
    /\ epc = "start"
    /\ LET s1 == Assign(scalars, "total_budget", total_budget)
           s2 == Assign(s1, "total_tasks", Len(task_progress))
           s3 == Assign(s2, "project_duration_days", project_duration_days)
           s4 == Assign(s3, "final_ev_traditional", Total(task_progress, "earned_value_traditional"))
           s5 == Assign(s4, "final_ev_quality", Total(task_progress, "earned_value_quality_gated"))
           s6 == Assign(s5, "final_ac", Total(task_progress, "actual_cost"))
       IN  scalars' = Assign(s6, "total_rework_cost", Total(task_progress, "rework_cost"))
    /\ epc' = "summed"
    /\ UNCHANGED <<task_progress, runs, sim>>
    /\ UNCHANGED <<engine_vars, temporal, series_vars>>

\* lines 145-148.  The sums of a table without rows are the Python int 0
\* (empty columns are read as object columns), so line 147 divides int by
\* int and raises ZeroDivisionError; lines 145-146 divide by a float.
PerformanceIndices ==
    /\ epc = "summed"
    /\ LET s1 == Assign(scalars, "final_spi_traditional",
                        Div(scalars["final_ev_traditional"], scalars["total_budget"]))
           s2 == Assign(s1, "final_spi_quality",
                        Div(scalars["final_ev_quality"], scalars["total_budget"]))
           s3 == Assign(s2, "final_cpi_traditional",
                        Div(scalars["final_ev_traditional"], scalars["final_ac"]))
       IN  IF task_progress = <<>>
           THEN scalars' = s2 /\ epc' = "raised"
           ELSE /\ scalars' = Assign(s3, "final_cpi_quality",
                                     Div(scalars["final_ev_quality"], scalars["final_ac"]))
                /\ epc' = "indexed"
    /\ UNCHANGED <<task_progress, runs, sim>>
    /\ UNCHANGED <<engine_vars, temporal, series_vars>>

\* lines 151-152
Variances ==
    /\ epc = "indexed"
    /\ LET s1 == Assign(scalars, "schedule_variance",
                        scalars["final_ev_quality"] - scalars["total_budget"])
       IN  scalars' = Assign(s1, "cost_variance",
                             scalars["final_ev_quality"] - scalars["final_ac"])
    /\ epc' = "varied"
    /\ UNCHANGED <<task_progress, runs, sim>>
    /\ UNCHANGED <<engine_vars, temporal, series_vars>>

\* line 159: (sum / total_tasks) * 100
FailureRate(t, total_tasks) ==
    Div(Total(t, "failure_count") * PercentScale, total_tasks)

\* mutant: the share of the tasks without a recorded failure
FirstTimeRightRateAs(t, total_tasks) ==
    Div(Cardinality({k \in DOMAIN t : t[k].failure_count = 0}) * PercentScale, total_tasks)

\* line 160: ((total_tasks - sum) / total_tasks) * 100
FirstTimeRightRate(t, total_tasks) ==
    Div((total_tasks - Total(t, "failure_count")) * PercentScale, total_tasks)

\* lines 159-160; the table has rows here, line 147 has raised otherwise
QualityRates ==
    /\ epc = "varied"
    /\ LET s1 == Assign(scalars, "failure_rate",
                        FailureRate(task_progress, scalars["total_tasks"]))
       IN  scalars' = Assign(s1, "first_time_right_rate",
                             FirstTimeRightRate(task_progress, scalars["total_tasks"]))
    /\ epc' = "ready"
    /\ runs' = runs + 1
    /\ UNCHANGED <<task_progress, sim>>
    /\ UNCHANGED <<engine_vars, temporal, series_vars>>

\* the module body is run again (a second call of the computation) on the
\* table and the globals as they stand, before the new run serves a request
Rerun ==
    /\ epc = "ready"
    /\ runs < MaxRuns
    /\ sim = Unassigned
    /\ epc' = "start"
    /\ UNCHANGED <<task_progress, scalars, runs, sim>>
    /\ UNCHANGED <<engine_vars, temporal, series_vars>>

\* ------------------------------------------------------------------------
\* Scenario simulator: the table of create_simulation_tab (lines 815-848) and
\* the chart of update_simulation_comparison in both modules.
RECURSIVE GCD(_, _)
GCD(a, b) == IF b = 0 THEN a ELSE GCD(b, a % b)

\* the fraction f in lowest terms
Reduced(f) ==
    LET g == GCD(f.num, f.den) IN IF g = 0 THEN f ELSE Frac(f.num \div g, f.den \div g)

\* the amount n / d as whole cents and a proper fraction of a cent in lowest
\* terms, so that equal amounts are equal records
Mixed(n, d) == [whole |-> n \div d, part |-> Reduced(Frac(n % d, d))]

\* a + m
PlusWhole(a, m) == [whole |-> a + m.whole, part |-> m.part]

\* amount * f for a whole amount of cents
Times(amount, f) == Mixed(amount * f.num, f.den)

\* f / g and 1 - f on fractions, in lowest terms
FracDiv(f, g) == Reduced(Frac(f.num * g.den, f.den * g.num))
OneMinus(f) == Reduced(Frac(f.den - f.num, f.den))

\* the literals 0.25, 4.1, 0.4 and 0.6 of lines 834-843 and 1617-1618
TargetResponseDays == Frac(25, 100)
ReferenceResponseDays == Frac(41, 10)
CombinedCostShare == Frac(4, 10)
CombinedSavingsShare == Frac(6, 10)

CentsPerEuro == 100

\* f'{amount:,.0f}': the amount in whole euros, half-way cases to the even
\* neighbour
Euros(m) ==
    LET q == m.whole \div CentsPerEuro
        rem == m.whole % CentsPerEuro
        half == CentsPerEuro \div 2
    IN  IF rem > half \/ (rem = half /\ m.part.num > 0) THEN q + 1
        ELSE IF rem = half /\ q % 2 = 1 THEN q + 1
        ELSE q

EurosOf(amounts) == [k \in DOMAIN amounts |-> Euros(amounts[k])]

\* lines 819, 827, 835, 843: the total_cost column before formatting
TableCosts(ac, budget, rework) ==
    << Mixed(ac, 1),
       Mixed(budget, 1),
       PlusWhole(budget, Times(rework, FracDiv(TargetResponseDays, ReferenceResponseDays))),
       PlusWhole(budget, Times(rework, CombinedCostShare)) >>

\* lines 820, 828, 836, 844: the savings column before formatting; the first
\* row holds the literal text of 0
TableSavings(rework) ==
    << Mixed(0, 1),
       Mixed(rework, 1),
       Times(rework, OneMinus(FracDiv(TargetResponseDays, ReferenceResponseDays))),
       Times(rework, CombinedSavingsShare) >>

\* mutant: Combined costs the share of the rework it saves
ChartCostsAs(ac, budget, rework) ==
    << Mixed(ac, 1),
       Mixed(budget, 1),
       PlusWhole(budget, Times(rework, FracDiv(TargetResponseDays, ReferenceResponseDays))),
       PlusWhole(budget, Times(rework, CombinedSavingsShare)) >>

\* line 1617
ChartCosts(ac, budget, rework) ==
    << Mixed(ac, 1),
       Mixed(budget, 1),
       PlusWhole(budget, Times(rework, FracDiv(TargetResponseDays, ReferenceResponseDays))),
       PlusWhole(budget, Times(rework, CombinedCostShare)) >>

\* mutant: the Combined saving is the share that Combined still costs
ChartSavingsAs(rework) ==
    << Mixed(0, 1),
       Mixed(rework, 1),
       Times(rework, OneMinus(FracDiv(TargetResponseDays, ReferenceResponseDays))),
       Times(rework, CombinedCostShare) >>

\* line 1618
ChartSavings(rework) ==
    << Mixed(0, 1),
       Mixed(rework, 1),
       Times(rework, OneMinus(FracDiv(TargetResponseDays, ReferenceResponseDays))),
       Times(rework, CombinedSavingsShare) >>

\* mutant: the third and the fourth scenario change places
CallbacksChartCostsAs(ac, budget, rework) ==
    << Mixed(ac, 1),
       Mixed(budget, 1),
       PlusWhole(budget, Times(rework, CombinedCostShare)),
       PlusWhole(budget, Times(rework, FracDiv(TargetResponseDays, ReferenceResponseDays))) >>

\* dashboard_callbacks.py line 840
CallbacksChartCosts(ac, budget, rework) ==
    << Mixed(ac, 1),
       Mixed(budget, 1),
       PlusWhole(budget, Times(rework, FracDiv(TargetResponseDays, ReferenceResponseDays))),
       PlusWhole(budget, Times(rework, CombinedCostShare)) >>

\* dashboard_callbacks.py line 841
CallbacksChartSavings(rework) ==
    << Mixed(0, 1),
       Mixed(rework, 1),
       Times(rework, OneMinus(FracDiv(TargetResponseDays, ReferenceResponseDays))),
       Times(rework, CombinedSavingsShare) >>

TableScenarios ==
    <<"Current Project", "Perfect Quality", "Improved Response Times", "Combined Improvements">>
ChartScenarios == <<"Current", "Perfect Quality", "Improved Response", "Combined">>
CallbacksChartScenarios == <<"Current", "Perfect Quality", "Fast Response", "Combined">>

\* lines 815-848: the rows of the scenario table, the amounts as the whole
\* euros their text shows (the columns savings_pct, improvement and effort
\* are display text no other part reads)
CreateSimulationTab ==
    /\ epc = "ready"
    /\ LET costs == TableCosts(scalars["final_ac"], scalars["total_budget"],
                               scalars["total_rework_cost"])
           savings == TableSavings(scalars["total_rework_cost"])
       IN  sim' = Assign(sim, "table",
                     [k \in DOMAIN TableScenarios |->
                         [scenario |-> TableScenarios[k],
                          total_cost |-> Euros(costs[k]),
                          savings |-> Euros(savings[k])]])
    /\ UNCHANGED <<task_progress, scalars, epc, runs>>
    /\ UNCHANGED <<engine_vars, temporal, series_vars>>

\* the two traces of the figure: bars of the costs, a line of the savings,
\* each with its text labels
Figure(scenarios, costs, savings) ==
    [x |-> scenarios,
     costs |-> costs, cost_text |-> EurosOf(costs),
     savings |-> savings, savings_text |-> EurosOf(savings)]

\* lines 1614-1640
UpdateSimulationComparison ==
    /\ epc = "ready"
    /\ sim' = Assign(sim, "chart",
                  Figure(ChartScenarios,
                         ChartCosts(scalars["final_ac"], scalars["total_budget"],
                                    scalars["total_rework_cost"]),
                         ChartSavings(scalars["total_rework_cost"])))
    /\ UNCHANGED <<task_progress, scalars, epc, runs>>
    /\ UNCHANGED <<engine_vars, temporal, series_vars>>

\* dashboard_callbacks.py lines 837-870; final_ac, total_budget and
\* total_rework_cost are the names the module imports
CallbacksUpdateSimulationComparison ==
    /\ epc = "ready"
    /\ sim' = Assign(sim, "callbacks_chart",
                  Figure(CallbacksChartScenarios,
                         CallbacksChartCosts(scalars["final_ac"], scalars["total_budget"],
                                             scalars["total_rework_cost"]),
                         CallbacksChartSavings(scalars["total_rework_cost"])))
    /\ UNCHANGED <<task_progress, scalars, epc, runs>>
    /\ UNCHANGED <<engine_vars, temporal, series_vars>>

NextEVM ==
    \/ LoadTotals
    \/ PerformanceIndices
    \/ Variances
    \/ QualityRates
    \/ Rerun
    \/ CreateSimulationTab
    \/ UpdateSimulationComparison
    \/ CallbacksUpdateSimulationComparison

\* the scalar metrics at module load, then the simulator's table and charts
SpecEVM == InitEVM /\ [][NextEVM]_vars

\* ------------------------------------------------------------------------
\* The time-series callbacks (lines 1100-1139; dashboard_callbacks.py lines
\* 297-347), which write derived columns into the shared time_series table.
\* A table is its column labels and, per label position, the column's values.
MaxPoints == 2

PlannedValues == {0, 100}
EarnedTraditionalValues == {90}
EarnedQualityValues == {0, 60}
ActualCosts == {0, 80}

TimePoint ==
    [planned_value : PlannedValues,
     earned_value_traditional : EarnedTraditionalValues,
     earned_value_quality_gated : EarnedQualityValues,
     actual_cost : ActualCosts]

LoadedColumns ==
    <<"date", "planned_value", "earned_value_traditional",
      "earned_value_quality_gated", "actual_cost">>

\* time_series as read from the CSV: one date per row
Loaded(points) ==
    [columns |-> LoadedColumns,
     data |-> [j \in DOMAIN LoadedColumns |->
                  [k \in DOMAIN points |->
                      IF LoadedColumns[j] = "date" THEN k ELSE points[k][LoadedColumns[j]]]]]

\* the request handlers that can be at work at the same time
Handlers == {"h1", "h2"}

Callbacks == {"update_detailed_variance_analysis", "update_detailed_performance_indices"}

\* the columns a callback assigns, in the order of its statements
Assigned(cb) ==
    IF cb = "update_detailed_variance_analysis"
    THEN <<"schedule_variance", "cost_variance">>
    ELSE <<"spi_traditional", "spi_quality", "cpi">>

\* Index.get_loc(label): the positions that carry the label
Positions(ts, label) == {j \in DOMAIN ts.columns : ts.columns[j] = label}

RECURSIVE Ascending(_)
\* the positions of S in ascending order
Ascending(S) ==
    IF S = {} THEN <<>>
    ELSE LET m == CHOOSE x \in S : \A y \in S : x <= y IN <<m>> \o Ascending(S \ {m})

\* ts[label]: the values of every column carrying the label (one column for
\* a label that occurs once, a frame of several for a repeated label)
Get(ts, label) ==
    LET at == Ascending(Positions(ts, label)) IN [n \in DOMAIN at |-> ts.data[at[n]]]

\* the Series ts[label] of a loaded column
Series(ts, label) == Get(ts, label)[1]

SeriesMinus(a, b) == [k \in DOMAIN a |-> a[k] - b[k]]

\* mutant: one zero divisor spoils the quotient of every date
SeriesDivAs(a, b) ==
    [k \in DOMAIN a |->
        IF \E n \in DOMAIN b : b[n] = 0 THEN Frac(0, 0) ELSE Frac(a[k], b[k])]

\* a / b by element; a zero divisor gives inf or nan for that date only
SeriesDiv(a, b) == [k \in DOMAIN a |-> Div(a[k], b[k])]

\* mutant: a variance that is already in the table is diminished again
DerivedAs(ts, label) ==
    CASE label = "schedule_variance" ->
            SeriesMinus(IF Positions(ts, label) = {}
                        THEN Series(ts, "earned_value_quality_gated")
                        ELSE Series(ts, label),
                        Series(ts, "planned_value"))
      [] label = "cost_variance" ->
            SeriesMinus(Series(ts, "earned_value_quality_gated"), Series(ts, "actual_cost"))
      [] label = "spi_traditional" ->
            SeriesDiv(Series(ts, "earned_value_traditional"), Series(ts, "planned_value"))
      [] label = "spi_quality" ->
            SeriesDiv(Series(ts, "earned_value_quality_gated"), Series(ts, "planned_value"))
      [] label = "cpi" ->
            SeriesDiv(Series(ts, "earned_value_quality_gated"), Series(ts, "actual_cost"))

\* the right-hand sides of lines 1105-1106 and 1137-1139
Derived(ts, label) ==
    CASE label = "schedule_variance" ->
            SeriesMinus(Series(ts, "earned_value_quality_gated"), Series(ts, "planned_value"))
      [] label = "cost_variance" ->
            SeriesMinus(Series(ts, "earned_value_quality_gated"), Series(ts, "actual_cost"))
      [] label = "spi_traditional" ->
            SeriesDiv(Series(ts, "earned_value_traditional"), Series(ts, "planned_value"))
      [] label = "spi_quality" ->
            SeriesDiv(Series(ts, "earned_value_quality_gated"), Series(ts, "planned_value"))
      [] label = "cpi" ->
            SeriesDiv(Series(ts, "earned_value_quality_gated"), Series(ts, "actual_cost"))

\* the traces of the returned figure: the dates and the assigned columns as
\* read back from the table
Traces(ts, cb) ==
    [x |-> Get(ts, "date"),
     y |-> [n \in DOMAIN Assigned(cb) |-> Get(ts, Assigned(cb)[n])]]

NoFigure == [x |-> <<>>, y |-> <<>>]

NotCalled == [cb |-> "none", stmt |-> 0, value |-> <<>>, loc |-> {}, figure |-> NoFigure]

InitSeries ==
    /\ EngineIdle
    /\ temporal = Unassigned
    /\ EvmIdle
    /\ \E n \in 0..MaxPoints : \E points \in [1..n -> TimePoint] :
          time_series = Loaded(points)
    /\ hpc = [h \in Handlers |-> "idle"]
    /\ hloc = [h \in Handlers |-> NotCalled]

\* a request reaches the handler, which enters the callback
Invoke(h, cb) ==
    /\ hpc[h] = "idle"
    /\ hpc' = [hpc EXCEPT ![h] = "lookup"]
    /\ hloc' = [hloc EXCEPT ![h] = [NotCalled EXCEPT !.cb = cb, !.stmt = 1]]
    /\ UNCHANGED time_series
    /\ UNCHANGED <<engine_vars, temporal, evm_vars>>

\* time_series[label] = value, first half: the right-hand side is evaluated
\* and DataFrame.__setitem__ looks the label up
Lookup(h) ==
    /\ hpc[h] = "lookup"
    /\ LET label == Assigned(hloc[h].cb)[hloc[h].stmt]
       IN  hloc' = [hloc EXCEPT ![h].value = Derived(time_series, label),
                                ![h].loc = Positions(time_series, label)]
    /\ hpc' = [hpc EXCEPT ![h] = "store"]
    /\ UNCHANGED time_series
    /\ UNCHANGED <<engine_vars, temporal, evm_vars>>

\* second half: a label that was not found is inserted as a new last column,
\* a label that was found has its column(s) overwritten
Store(h) ==
    /\ hpc[h] = "store"
    /\ LET label == Assigned(hloc[h].cb)[hloc[h].stmt]
       IN  time_series' =
              IF hloc[h].loc = {}
              THEN [columns |-> Append(time_series.columns, label),
                    data |-> Append(time_series.data, hloc[h].value)]
              ELSE [time_series EXCEPT
                      !.data = [j \in DOMAIN time_series.data |->
                                   IF j \in hloc[h].loc THEN hloc[h].value
                                   ELSE time_series.data[j]]]
    /\ IF hloc[h].stmt < Len(Assigned(hloc[h].cb))
       THEN /\ hloc' = [hloc EXCEPT ![h].stmt = hloc[h].stmt + 1]
            /\ hpc' = [hpc EXCEPT ![h] = "lookup"]
       ELSE /\ hloc' = hloc
            /\ hpc' = [hpc EXCEPT ![h] = "read"]
    /\ UNCHANGED <<engine_vars, temporal, evm_vars>>

\* the figure is built from the table's columns and returned
ReturnFigure(h) ==
    /\ hpc[h] = "read"
    /\ hloc' = [hloc EXCEPT ![h].figure = Traces(time_series, hloc[h].cb)]
    /\ hpc' = [hpc EXCEPT ![h] = "done"]
    /\ UNCHANGED time_series
    /\ UNCHANGED <<engine_vars, temporal, evm_vars>>

\* no other handler is inside a callback
Alone(h) == \A other \in Handlers \ {h} : hpc[other] \in {"idle", "done"}

\* a server that works on one request at a time
InvokeAlone(h, cb) == Alone(h) /\ Invoke(h, cb)

NextSeries ==
    \E h \in Handlers :
        \/ \E cb \in Callbacks : InvokeAlone(h, cb)
        \/ Lookup(h)
        \/ Store(h)
        \/ ReturnFigure(h)

\* the callbacks one after the other
SpecSeries == InitSeries /\ [][NextSeries]_vars

NextRequests ==
    \E h \in Handlers :
        \/ \E cb \in Callbacks : Invoke(h, cb)
        \/ Lookup(h)
        \/ Store(h)
        \/ ReturnFigure(h)

\* the callbacks under a threaded server: the handlers' steps interleave
SpecRequests == InitSeries /\ [][NextRequests]_vars

\* ------------------------------------------------------------------------
\* A session: the module body runs (the engine at line 127, the scalar
\* metrics of lines 134-160, the temporal metrics of lines 163-166), then
\* the server answers requests one after the other.
MaxSessionLen == 2

SecondsPerDay == HoursPerDay * SecondsPerHour

\* events of one component on two calendar days
SessionEvent ==
    [pk : {"K1"}, stepId : {"S1"}, inspectedAt : {0, SecondsPerDay}, status : Statuses]

SessionLogs == UNION {[1..n -> SessionEvent] : n \in 0..MaxSessionLen}

\* no task, or one task that failed once and caused rework
SessionTasks ==
    {t \in TaskTables : \/ t = <<>>
                        \/ /\ Len(t) = 1
                           /\ t[1].failure_count = 1
                           /\ t[1].rework_cost # 0
                           /\ t[1].actual_cost # 0
                           /\ t[1].earned_value_quality_gated # 0}

\* one date with cost and earned value
SessionSeries ==
    {Loaded(<<p>>) : p \in {q \in TimePoint : /\ q.actual_cost # 0
                                              /\ q.earned_value_quality_gated # 0}}

InitSession ==
    /\ pc = "start"
    /\ quality_data \in SessionLogs
    /\ failed_inspections = <<>>
    /\ i = 1
    /\ response_times = <<>>
    /\ rework_cycles = <<>>
    /\ step_performance = <<>>
    /\ result = NoResult
    /\ counts = NoCounts
    /\ temporal = Unassigned
    /\ task_progress \in SessionTasks
    /\ scalars = Unassigned
    /\ epc = "start"
    /\ runs = 0
    /\ sim = Unassigned
    /\ time_series \in SessionSeries
    /\ hpc = [h \in Handlers |-> "idle"]
    /\ hloc = [h \in Handlers |-> NotCalled]

\* line 134 is reached when the call of line 127 has returned
SessionLoadTotals == pc = "done" /\ LoadTotals

\* line 163 is reached when line 160 is done
SessionTemporalMetrics == epc = "ready" /\ TemporalMetrics

\* the module body is done and app.run is serving
Serving == pc = "metrics" /\ epc = "ready"

TimelineCallbacks == {"update_quality_timeline", "update_temporal_timeline"}

\* inspectedAt.dt.date, as the number of the day
DateOf(t) == t \div SecondsPerDay

\* mutant: the timestamp is cut down to its date in place
WithDateAs(row) ==
    [pk |-> row.pk, stepId |-> row.stepId, inspectedAt |-> DateOf(row.inspectedAt),
     status |-> row.status, date |-> DateOf(row.inspectedAt)]

\* lines 1304 and 1339 for one row: the column date is added or overwritten
WithDate(row) ==
    [pk |-> row.pk, stepId |-> row.stepId, inspectedAt |-> row.inspectedAt,
     status |-> row.status, date |-> DateOf(row.inspectedAt)]

\* the order of the loop of lines 1310 and 1345
StatusOrder == <<"Pass", "Fail", "Offered">>

\* one row of groupby(['date', 'status']).size()
DailyCount(qd, d, s) == Cardinality({k \in DOMAIN qd : qd[k].date = d /\ qd[k].status = s})

\* the trace of one status: its dates in ascending order and their counts
StatusTrace(qd, s, cb) ==
    LET x == Ascending({qd[k].date : k \in {n \in DOMAIN qd : qd[n].status = s}})
    IN  [name |-> <<s, IF cb = "update_quality_timeline" THEN "Events" ELSE "Inspections">>,
         x |-> x,
         y |-> [n \in DOMAIN x |-> DailyCount(qd, x[n], s)]]

HasPoints(trace) == trace.x # <<>>

\* lines 1305-1321 and 1340-1356: a trace for each status that occurs
DailyTraces(qd, cb) ==
    [x |-> <<>>,
     y |-> SelectSeq([n \in DOMAIN StatusOrder |-> StatusTrace(qd, StatusOrder[n], cb)],
                     HasPoints)]

\* a request for a time-series chart is taken when no other is being served
SessionInvoke(h, cb) == Serving /\ InvokeAlone(h, cb)

\* a request for a timeline chart is taken when no other is being served
InvokeTimeline(h, cb) ==
    /\ Serving
    /\ Alone(h)
    /\ hpc[h] = "idle"
    /\ hpc' = [hpc EXCEPT ![h] = "timeline"]
    /\ hloc' = [hloc EXCEPT ![h] = [NotCalled EXCEPT !.cb = cb]]
    /\ UNCHANGED time_series
    /\ UNCHANGED <<engine_vars, temporal, evm_vars>>

\* lines 1302-1330 and 1337-1365: the date column is written into the shared
\* inspection table, the events are counted per date and status, and the
\* figure is returned
Timeline(h) ==
    /\ hpc[h] = "timeline"
    /\ quality_data' = [k \in DOMAIN quality_data |-> WithDate(quality_data[k])]
    /\ hloc' = [hloc EXCEPT ![h].figure = DailyTraces(quality_data', hloc[h].cb)]
    /\ hpc' = [hpc EXCEPT ![h] = "done"]
    /\ UNCHANGED <<pc, failed_inspections, i, response_times, rework_cycles,
                   step_performance, result, counts>>
    /\ UNCHANGED <<temporal, evm_vars, time_series>>

\* the simulation tab is built for a request
SessionCreateSimulationTab == Serving /\ CreateSimulationTab

\* lines 155-158: the counts of the inspection events by status.  They are
\* taken at load; no later statement writes the status column
StatusCount(s) == Cardinality({k \in Rows : quality_data[k].status = s})
pass_count == StatusCount("Pass")
fail_count == StatusCount("Fail")
offered_count == StatusCount("Offered")

\* a tab-creation function that did not return
ZeroDivisionError == [outcome |-> "ZeroDivisionError"]

\* f'{x:.1f}' of pass_count / offered_count * 100, in tenths of a percent
PassRateText(passes, offered) == RoundHalfEven(passes * PercentScale * 10, offered)

\* lines 534-560: the KPI cards of the quality tab.  Line 543 divides the
\* Python int pass_count by the Python int offered_count
CreateQualityAnalyticsTab ==
    /\ Serving
    /\ sim' = Assign(sim, "quality_tab",
                 IF offered_count = 0 THEN ZeroDivisionError
                 ELSE [outcome |-> "returned",
                       pass_rate |-> PassRateText(pass_count, offered_count),
                       pass_count |-> pass_count,
                       offered_count |-> offered_count,
                       failure_rate |-> scalars["failure_rate"],
                       fail_count |-> fail_count,
                       first_time_right_rate |-> scalars["first_time_right_rate"],
                       rework_cost |-> Euros(Mixed(scalars["total_rework_cost"], 1))])
    /\ UNCHANGED <<task_progress, scalars, epc, runs>>
    /\ UNCHANGED <<engine_vars, temporal, series_vars>>

\* lines 710-739: the KPI cards of the task tab.  Line 737 divides the float
\* total_budget by the Python int total_tasks
CreateTaskManagementTab ==
    /\ Serving
    /\ sim' = Assign(sim, "tasks_tab",
                 IF scalars["total_tasks"] = 0 THEN ZeroDivisionError
                 ELSE [outcome |-> "returned",
                       total_tasks |-> scalars["total_tasks"],
                       failed_tasks |-> Total(task_progress, "failure_count"),
                       failure_rate |-> scalars["failure_rate"],
                       average_task_value |->
                           Euros(Mixed(scalars["total_budget"], scalars["total_tasks"]))])
    /\ UNCHANGED <<task_progress, scalars, epc, runs>>
    /\ UNCHANGED <<engine_vars, temporal, series_vars>>

NextSession ==
    \/ Next
    \/ SessionLoadTotals
    \/ PerformanceIndices
    \/ Variances
    \/ QualityRates
    \/ SessionTemporalMetrics
    \/ SessionCreateSimulationTab
    \/ CreateQualityAnalyticsTab
    \/ CreateTaskManagementTab
    \/ \E h \in Handlers :
          \/ \E cb \in Callbacks : SessionInvoke(h, cb)
          \/ \E cb \in TimelineCallbacks : InvokeTimeline(h, cb)
          \/ Lookup(h)
          \/ Store(h)
          \/ ReturnFigure(h)
          \/ Timeline(h)

SpecSession == InitSession /\ [][NextSession]_vars

\* ------------------------------------------------------------------------
\* Tab routing: render_tab_content of both modules (lines 891-913;
\* dashboard_callbacks.py lines 97-117).
\* the values a request can carry: the seven tabs and three others
TabValues ==
    {"executive", "detailed", "quality", "temporal", "bottlenecks", "tasks", "simulation",
     "Executive", "settings", ""}

\* the if/elif chain of lines 894-907
TabFunction ==
    [executive |-> "create_executive_summary_tab",
     detailed |-> "create_detailed_evm_tab",
     quality |-> "create_quality_analytics_tab",
     temporal |-> "create_temporal_analysis_tab",
     bottlenecks |-> "create_bottleneck_analysis_tab",
     tasks |-> "create_task_management_tab",
     simulation |-> "create_simulation_tab"]

\* tab_map of dashboard_callbacks.py lines 100-108
tab_map ==
    [executive |-> "create_executive_tab",
     detailed |-> "create_detailed_evm_tab",
     quality |-> "create_quality_tab",
     temporal |-> "create_temporal_tab",
     bottlenecks |-> "create_bottleneck_tab",
     tasks |-> "create_task_tab",
     simulation |-> "create_simulation_tab"]

\* the names dashboard_callbacks.py binds at module level by its imports
\* (lines 14-31), as far as the routing callback uses names
CallbacksGlobals ==
    {"Input", "Output", "callback", "px", "go", "make_subplots", "pd", "np", "app",
     "create_executive_tab", "create_detailed_evm_tab", "create_quality_tab",
     "create_temporal_tab", "create_bottleneck_tab", "create_task_tab",
     "create_simulation_tab"}

\* the names complete_dashboard_with_all_tabs.py binds by line 15
MainGlobals == {"dcc", "html", "Input", "Output", "callback", "dash_table"}

InitRouting ==
    /\ EngineIdle
    /\ EvmIdle
    /\ SeriesIdle

\* what the call of the routed tab-creation function returns
Routed(function) == [outcome |-> "returned", content |-> "tab", of |-> function]

\* html.Div([html.H3(f"...'{active_tab}'..."), html.P(...)]): the name html
\* is looked up in the module's globals when the branch runs
Placeholder(globals, active_tab) ==
    IF "html" \in globals
    THEN [outcome |-> "returned", content |-> "placeholder", of |-> active_tab]
    ELSE [outcome |-> "NameError", content |-> "none", of |-> "html"]

\* lines 893-913
RenderTabContent(active_tab) ==
    /\ pc = "idle"
    /\ hloc' = Assign(hloc, "render_tab_content",
                  IF active_tab \in DOMAIN TabFunction
                  THEN Routed(TabFunction[active_tab])
                  ELSE Placeholder(MainGlobals, active_tab))
    /\ hpc' = Assign(hpc, "render_tab_content", active_tab)
    /\ UNCHANGED time_series
    /\ UNCHANGED <<engine_vars, temporal, evm_vars>>

\* dashboard_callbacks.py lines 99-117
CallbacksRenderTabContent(active_tab) ==
    /\ pc = "idle"
    /\ hloc' = Assign(hloc, "callbacks_render_tab_content",
                  IF active_tab \in DOMAIN tab_map
                  THEN Routed(tab_map[active_tab])
                  ELSE Placeholder(CallbacksGlobals, active_tab))
    /\ hpc' = Assign(hpc, "callbacks_render_tab_content", active_tab)
    /\ UNCHANGED time_series
    /\ UNCHANGED <<engine_vars, temporal, evm_vars>>

NextRouting ==
    \E active_tab \in TabValues :
        \/ RenderTabContent(active_tab)
        \/ CallbacksRenderTabContent(active_tab)

SpecRouting == InitRouting /\ [][NextRouting]_vars

\* ------------------------------------------------------------------------
\* Vocabulary of the properties, stated on the log itself.
Returned == pc = "done"
Failures == {k \in Rows : quality_data[k].status = "Fail"}
TimeOf(k) == quality_data[k].inspectedAt
LaterSameKey(k) ==
    {n \in Rows : quality_data[n].pk = quality_data[k].pk /\ TimeOf(n) > TimeOf(k)}
LaterPass(k) == {n \in LaterSameKey(k) : quality_data[n].status = "Pass"}
EarliestTime(S) == CHOOSE t \in {TimeOf(n) : n \in S} : \A n \in S : t <= TimeOf(n)
Responded == {k \in Failures : LaterSameKey(k) # {}}
Resolved == {k \in Failures : LaterPass(k) # {}}
\* the rows of S that carry the same pk, stepId and inspectedAt as row k
Twins(k, S) ==
    {m \in S : /\ quality_data[m].pk = quality_data[k].pk
               /\ quality_data[m].stepId = quality_data[k].stepId
               /\ TimeOf(m) = TimeOf(k)}
\* the records of R derived from an event with the fields of row k
Matching(R, k) ==
    {j \in DOMAIN R : /\ R[j].pk = quality_data[k].pk
                      /\ R[j].stepId = quality_data[k].stepId
                      /\ R[j].failure_date = TimeOf(k)}
\* the records of R about component pk failing at time t
About(R, k) ==
    {j \in DOMAIN R : R[j].pk = quality_data[k].pk /\ R[j].failure_date = TimeOf(k)}

\* C1: the returned response times hold exactly one record for each Fail
\* event that has a later event of the same pk and none for any other event;
\* response_time_hours is the time from the failure to the earliest such
\* later event and next_status is the status of an event at that time.
C1_ResponseTimes ==
    Returned =>
        LET R == result.response_df IN
        /\ \A j \in DOMAIN R : \E k \in Rows : j \in Matching(R, k)
        /\ \A k \in Rows : Cardinality(Matching(R, k)) = Cardinality(Twins(k, Responded))
        /\ \A k \in Responded : \A j \in Matching(R, k) :
              /\ R[j].response_time_hours * SecondsPerHour
                    = EarliestTime(LaterSameKey(k)) - TimeOf(k)
              /\ \E n \in LaterSameKey(k) :
                    /\ TimeOf(n) = EarliestTime(LaterSameKey(k))
                    /\ quality_data[n].status = R[j].next_status

\* C1 witness: a run returned a record whose next event is not a Pass and
\* belongs to another step, while another failure got no record.
C1_Witness ==
    /\ Returned
    /\ Cardinality(Responded) < Cardinality(Failures)
    /\ \E j \in DOMAIN result.response_df : \E k \in Responded :
          /\ j \in Matching(result.response_df, k)
          /\ result.response_df[j].next_status = "Offered"
          /\ \A n \in LaterSameKey(k) : quality_data[n].stepId # quality_data[k].stepId

\* C2: the returned rework cycles hold a record for a Fail event exactly when
\* a later Pass of the same pk exists; resolution_date is the smallest
\* inspectedAt of those Pass events and rework_time_hours the time between.
C2_ReworkCycles ==
    Returned =>
        LET W == result.rework_df IN
        /\ \A j \in DOMAIN W : \E k \in Rows : j \in Matching(W, k)
        /\ \A k \in Rows : Cardinality(Matching(W, k)) = Cardinality(Twins(k, Resolved))
        /\ \A k \in Resolved : \A j \in Matching(W, k) :
              /\ W[j].resolution_date = EarliestTime(LaterPass(k))
              /\ W[j].rework_time_hours * SecondsPerHour = W[j].resolution_date - TimeOf(k)

\* C2 witness: a failure followed by a non-Pass event and then by a Pass got
\* its cycle, resolved at the Pass and not at the earlier event.
C2_Witness ==
    /\ Returned
    /\ \E k \in Resolved : \E j \in Matching(result.rework_df, k) :
          /\ EarliestTime(LaterSameKey(k)) < EarliestTime(LaterPass(k))
          /\ result.rework_df[j].resolution_date = EarliestTime(LaterPass(k))

\* C3: in every returned rework cycle intermediate_inspections is the number
\* of events of the same pk strictly after the failure and strictly before
\* the resolution, it is not negative, and total_attempts is one more.
C3_Intermediate ==
    Returned =>
        \A j \in DOMAIN result.rework_df :
            LET w == result.rework_df[j] IN
            /\ w.intermediate_inspections
                  = Cardinality({n \in Rows : /\ quality_data[n].pk = w.pk
                                              /\ TimeOf(n) > w.failure_date
                                              /\ TimeOf(n) < w.resolution_date})
            /\ w.intermediate_inspections >= 0
            /\ w.total_attempts = w.intermediate_inspections + 1
            /\ w.total_attempts >= 1

\* C3 witness: two cycles were returned, one with an intermediate inspection
\* and one without.
C3_Witness ==
    /\ Returned
    /\ \E j \in DOMAIN result.rework_df :
          /\ result.rework_df[j].intermediate_inspections = 1
          /\ result.rework_df[j].total_attempts = 2
    /\ \E j \in DOMAIN result.rework_df :
          result.rework_df[j].intermediate_inspections = 0

\* C4: #rework cycles <= #response times <= #Fail events, and the response
\* times are as many as the Fail events exactly when every Fail event has a
\* later event of its pk.
C4_Counts ==
    Returned =>
        /\ Len(result.rework_df) <= Len(result.response_df)
        /\ Len(result.response_df) <= Cardinality(Failures)
        /\ (Len(result.response_df) = Cardinality(Failures))
              <=> (\A k \in Failures : LaterSameKey(k) # {})

\* C4 witness: the three counts are pairwise different.
C4_Witness ==
    /\ Returned
    /\ Len(result.rework_df) < Len(result.response_df)
    /\ Len(result.response_df) < Cardinality(Failures)

\* C5: an unresolved failure is an omission, not an error.  A Fail event
\* with no later event of its pk has no response time and no rework cycle; a
\* Fail event with later events but no later Pass has a response time and no
\* rework cycle; every other failure still has the records due to it, and the
\* engine can always take its next step until it has returned.
C5_UnresolvedOmitted ==
    /\ pc # "done" => ENABLED Next
    /\ Returned =>
          LET R == result.response_df
              W == result.rework_df
          IN \A k \in Failures :
                /\ LaterSameKey(k) = {} => About(R, k) = {} /\ About(W, k) = {}
                /\ (LaterSameKey(k) # {} /\ LaterPass(k) = {}) =>
                      /\ Cardinality(Matching(R, k)) = Cardinality(Twins(k, Failures))
                      /\ About(W, k) = {}
                /\ LaterPass(k) # {} =>
                      /\ Cardinality(Matching(R, k)) = Cardinality(Twins(k, Failures))
                      /\ Cardinality(Matching(W, k)) = Cardinality(Twins(k, Failures))

\* C5 witness: the engine returned for a log with a failure that has no later
\* event and a failure that has a later event but no later Pass, the second
\* with its response time.
C5_Witness ==
    /\ Returned
    /\ \E k \in Failures : LaterSameKey(k) = {}
    /\ \E k \in Failures :
          /\ LaterSameKey(k) # {}
          /\ LaterPass(k) = {}
          /\ Matching(result.response_df, k) # {}
          /\ result.rework_df = <<>>

\* the events of the pk of k that come first after k
NextEvents(k) ==
    {n \in LaterSameKey(k) : TimeOf(n) = EarliestTime(LaterSameKey(k))}

\* C6: when the next event of the pk after a Fail is a Pass, the failure has
\* one response time with response_time_hours = t2 - t1 and next_status Pass
\* and one rework cycle with rework_time_hours = t2 - t1, no intermediate
\* inspection and one attempt; an event that is not a Fail produces no record.
C6_DirectPass ==
    Returned =>
        LET R == result.response_df
            W == result.rework_df
        IN /\ \A k \in Failures :
                (/\ LaterSameKey(k) # {}
                 /\ \A n \in NextEvents(k) : quality_data[n].status = "Pass") =>
                    /\ Cardinality(Matching(R, k)) = Cardinality(Twins(k, Failures))
                    /\ Cardinality(Matching(W, k)) = Cardinality(Twins(k, Failures))
                    /\ \A j \in Matching(R, k) :
                          /\ R[j].response_time_hours * SecondsPerHour
                                = EarliestTime(LaterSameKey(k)) - TimeOf(k)
                          /\ R[j].next_status = "Pass"
                    /\ \A j \in Matching(W, k) :
                          /\ W[j].rework_time_hours * SecondsPerHour
                                = EarliestTime(LaterSameKey(k)) - TimeOf(k)
                          /\ W[j].intermediate_inspections = 0
                          /\ W[j].total_attempts = 1
           /\ \A k \in Rows \ Failures :
                 Twins(k, Failures) = {} => Matching(R, k) = {} /\ Matching(W, k) = {}

\* C6 witness: the log Offered@t0, Fail@t1, Pass@t2 of one pk was processed
\* and gave one response time and one rework cycle.
C6_Witness ==
    /\ Returned
    /\ \E a, b, c \in Rows :
          /\ quality_data[a].pk = quality_data[b].pk
          /\ quality_data[b].pk = quality_data[c].pk
          /\ quality_data[a].status = "Offered"
          /\ quality_data[b].status = "Fail"
          /\ quality_data[c].status = "Pass"
          /\ TimeOf(a) < TimeOf(b)
          /\ TimeOf(b) < TimeOf(c)
    /\ Len(result.response_df) = 1
    /\ Len(result.rework_df) = 1
    /\ result.rework_df[1].total_attempts = 1

\* the rows of one pk appear in the log in non-decreasing inspectedAt order
PerKeyOrdered ==
    \A a, b \in Rows :
        (a < b /\ quality_data[a].pk = quality_data[b].pk) => TimeOf(a) <= TimeOf(b)

\* C7: in a log ordered per pk, every rework cycle with total_attempts = 1
\* belongs to a failure whose response time has next_status Pass and whose
\* next event is at the cycle's resolution_date, also when events of one pk
\* share an inspectedAt.
C7_SingleAttemptIsDirectPass ==
    (Returned /\ PerKeyOrdered) =>
        \A j \in DOMAIN result.rework_df :
            result.rework_df[j].total_attempts = 1 =>
                \A r \in DOMAIN result.response_df :
                    (/\ result.response_df[r].pk = result.rework_df[j].pk
                     /\ result.response_df[r].failure_date = result.rework_df[j].failure_date)
                    => /\ result.response_df[r].next_status = "Pass"
                       /\ result.response_df[r].failure_date
                             + result.response_df[r].response_time_hours * SecondsPerHour
                             = result.rework_df[j].resolution_date

\* C8: the returned step performance has exactly one row per stepId of the
\* log, with the number of events, of Pass events and of Fail events of that
\* step; passes + failures <= total, the rest being the other events.
C8_StepPerformance ==
    Returned =>
        LET P == result.step_performance_df
            Of(s) == {k \in Rows : quality_data[k].stepId = s}
        IN /\ \A j \in DOMAIN P : P[j].stepId \in StepIds
           /\ \A s \in StepIds :
                 Cardinality({j \in DOMAIN P : P[j].stepId = s})
                    = IF Of(s) = {} THEN 0 ELSE 1
           /\ \A j \in DOMAIN P :
                 LET E == Of(P[j].stepId) IN
                 /\ P[j].Total_Inspections = Cardinality(E)
                 /\ P[j].Passes = Cardinality({k \in E : quality_data[k].status = "Pass"})
                 /\ P[j].Failures = Cardinality({k \in E : quality_data[k].status = "Fail"})
                 /\ P[j].Passes + P[j].Failures <= P[j].Total_Inspections
                 /\ P[j].Total_Inspections - (P[j].Passes + P[j].Failures)
                       = Cardinality({k \in E : quality_data[k].status \notin {"Pass", "Fail"}})

\* C8 witness: two steps were returned, one with a Pass and an Offered event
\* and one with a Fail event.
C8_Witness ==
    /\ Returned
    /\ Len(result.step_performance_df) = 2
    /\ \E j \in DOMAIN result.step_performance_df :
          /\ result.step_performance_df[j].Total_Inspections = 2
          /\ result.step_performance_df[j].Passes = 1
          /\ result.step_performance_df[j].Failures = 0
    /\ \E j \in DOMAIN result.step_performance_df :
          result.step_performance_df[j].Failures = 1

\* the events of a rated group that are neither Pass nor Fail
OfferedOf(row) == row.Total_Inspections - row.Passes - row.Failures
\* the exact percentage lies half-way between two tenths
HalfWay(part, total) == 2 * ((part * PercentScale * RateScale) % total) = total

\* C9 as stated: Pass_Rate + Failure_Rate <= 100, and = 100 exactly when the
\* step has no Offered events.
C9_RatesSumIffNoOffered ==
    pc = "rated" =>
        \A j \in DOMAIN step_performance :
            LET row == step_performance[j] IN
            /\ row.Pass_Rate + row.Failure_Rate <= PercentScale * RateScale
            /\ (row.Pass_Rate + row.Failure_Rate = PercentScale * RateScale)
                  <=> (OfferedOf(row) = 0)

\* C9 amended: where neither percentage is a half-way case,
\* Pass_Rate + Failure_Rate <= 100, and = 100 if the step has no Offered
\* events; with Offered events the sum is below 100 as long as
\* total < 1000 * offered.
C9_RatesSum ==
    pc = "rated" =>
        \A j \in DOMAIN step_performance :
            LET row == step_performance[j]
                sum == row.Pass_Rate + row.Failure_Rate
                halfway == \/ HalfWay(row.Passes, row.Total_Inspections)
                           \/ HalfWay(row.Failures, row.Total_Inspections)
            IN /\ ~halfway => /\ sum <= PercentScale * RateScale
                              /\ OfferedOf(row) = 0 => sum = PercentScale * RateScale
               /\ (/\ OfferedOf(row) >= 1
                   /\ row.Total_Inspections < PercentScale * RateScale * OfferedOf(row))
                     => sum < PercentScale * RateScale

\* C9 witness: a step with an Offered event whose rounded rates sum to 100,
\* rated next to nothing else than its counts.
C9_Witness ==
    /\ pc = "rated"
    /\ \E j \in DOMAIN step_performance :
          /\ OfferedOf(step_performance[j]) >= 1
          /\ step_performance[j].Pass_Rate + step_performance[j].Failure_Rate
                = PercentScale * RateScale

\* C10: for an empty inspection table the engine returns three empty
\* collections, and no step of it is blocked.
C10_EmptyLog ==
    quality_data = <<>> =>
        /\ pc \notin {"done", "counted", "rated"} => ENABLED Next
        /\ Returned => /\ result.response_df = <<>>
                       /\ result.rework_df = <<>>
                       /\ result.step_performance_df = <<>>

\* C10 witness: the engine returned for the empty table.
C10_Witness == Returned /\ quality_data = <<>>

\* C11: each temporal metric is 0 when the table it is computed from is
\* empty, also for a log that has events, and no metric is a division by 0.
C11_EmptyAggregates ==
    pc = "metrics" =>
        /\ result.response_df = <<>> => temporal["avg_response_time"] = Frac(0, 1)
        /\ result.rework_df = <<>> =>
              /\ temporal["avg_rework_time"] = Frac(0, 1)
              /\ temporal["total_quality_delay"] = 0
              /\ temporal["first_time_rework_success"] = Frac(0, 1)
        /\ temporal["avg_response_time"].den # 0
        /\ temporal["avg_rework_time"].den # 0
        /\ temporal["first_time_rework_success"].den # 0

\* C11 witness: the metrics were computed for a log with a failure and a
\* response time, but no rework cycle.
C11_Witness ==
    /\ pc = "metrics"
    /\ result.response_df # <<>>
    /\ result.rework_df = <<>>
    /\ temporal["avg_response_time"].num > 0
    /\ temporal["total_quality_delay"] = 0

\* ------------------------------------------------------------------------
\* Vocabulary of the properties of the scalar metrics.
RECURSIVE ColumnSum(_, _)
\* the sum of a column over the first n task records
ColumnSum(col, n) ==
    IF n = 0 THEN 0 ELSE task_progress[n][col] + ColumnSum(col, n - 1)

SumOfColumn(col) == ColumnSum(col, Len(task_progress))

RECURSIVE RemAt(_, _, _)
\* the remainder left after the first k decimals of n / d
RemAt(n, d, k) == IF k = 0 THEN n % d ELSE (RemAt(n, d, k - 1) * 10) % d

RECURSIVE Scaled(_, _, _)
\* n / d cut off after k decimals, as a whole number of units of 10^-k
Scaled(n, d, k) ==
    IF k = 0 THEN n \div d
    ELSE Scaled(n, d, k - 1) * 10 + (RemAt(n, d, k - 1) * 10) \div d

\* the fraction f to 4 decimals, in units of 0.0001
To4Decimals(f) ==
    Scaled(f.num, f.den, 4) + (IF 2 * RemAt(f.num, f.den, 4) >= f.den THEN 1 ELSE 0)

ScalarsReady == epc = "ready"

\* C12: the six project metrics are the stated reductions of the task table;
\* when the quality-gated earned value sums to 440000 and the actual cost to
\* 450000, finalSPIQuality is 0.9882 and finalCPIQuality 0.9778 to 4 decimals.
C12_ScalarMetrics ==
    ScalarsReady =>
        LET evt == SumOfColumn("earned_value_traditional")
            evq == SumOfColumn("earned_value_quality_gated")
            ac == SumOfColumn("actual_cost")
        IN  /\ scalars["final_spi_traditional"] = Frac(evt, total_budget)
            /\ scalars["final_spi_quality"] = Frac(evq, total_budget)
            /\ ac # 0 => /\ scalars["final_cpi_traditional"] = Frac(evt, ac)
                         /\ scalars["final_cpi_quality"] = Frac(evq, ac)
            /\ scalars["schedule_variance"] = evq - total_budget
            /\ scalars["cost_variance"] = evq - ac
            /\ (evq = 44000000 /\ ac = 45000000) =>
                  /\ To4Decimals(scalars["final_spi_quality"]) = 9882
                  /\ To4Decimals(scalars["final_cpi_quality"]) = 9778

\* C12 witness: the metrics of a two-task table with the example's sums.
C12_Witness ==
    /\ ScalarsReady
    /\ Len(task_progress) = 2
    /\ scalars["final_ev_quality"] = 44000000
    /\ scalars["final_ac"] = 45000000
    /\ scalars["cost_variance"] = 0 - 1000000

FailureFreeTasks == {k \in DOMAIN task_progress : task_progress[k].failure_count = 0}

\* C14: firstTimeRightRate is the percentage, between 0 and 100, of the task
\* records with failureCount = 0.
C14_ShareOfFailureFreeTasks ==
    ScalarsReady =>
        LET rate == scalars["first_time_right_rate"]
        IN  /\ rate.num * Len(task_progress) = 100 * Cardinality(FailureFreeTasks) * rate.den
            /\ rate.num >= 0
            /\ rate.num <= 100 * rate.den

\* C15: a second computation of the scalar metrics from the unchanged task
\* table leaves every metric at its value and does not change the table.
C15_Idempotent ==
    [][runs >= 1 => scalars' = scalars /\ task_progress' = task_progress]_vars

\* C15 witness: the metrics were computed twice from a table with costs.
C15_Witness ==
    /\ ScalarsReady
    /\ runs = 2
    /\ scalars["final_ac"] > 0
    /\ scalars["total_rework_cost"] > 0

\* C17: a zero denominator never raises: with sum(actualCost) = 0 both CPI
\* values are a sentinel, with zero task records both rates are a sentinel,
\* and the other scalar metrics are computed in both cases.
C17_ZeroDenominatorSentinel ==
    /\ epc # "raised"
    /\ ScalarsReady =>
          /\ scalars["final_ac"] = 0 =>
                /\ scalars["final_cpi_traditional"].den = 0
                /\ scalars["final_cpi_quality"].den = 0
          /\ scalars["total_tasks"] = 0 =>
                /\ scalars["failure_rate"].den = 0
                /\ scalars["first_time_right_rate"].den = 0
          /\ {"final_spi_traditional", "final_spi_quality", "schedule_variance",
              "cost_variance", "failure_rate", "first_time_right_rate"}
                \subseteq DOMAIN scalars

\* ------------------------------------------------------------------------
\* Vocabulary of the properties of the scenario simulator.
Charts == {"chart", "callbacks_chart"} \cap DOMAIN sim

\* the amount m is exactly n / d cents
IsExactly(m, n, d) ==
    /\ (m.part.num * d) % m.part.den = 0
    /\ d * m.whole + (m.part.num * d) \div m.part.den = n

\* C18: in the chart of either module the savings are 0, totalReworkCost,
\* totalReworkCost * (1 - 0.25/4.1) and 0.6 * totalReworkCost, the cost of
\* PerfectQuality is totalBudget and the cost of Current is finalActualCost;
\* the table shows 0 as the savings of Current.
C18_ScenarioSavings ==
    LET r == scalars["total_rework_cost"]
    IN  /\ \A c \in Charts :
              /\ IsExactly(sim[c].savings[1], 0, 1)
              /\ IsExactly(sim[c].savings[2], r, 1)
              /\ IsExactly(sim[c].savings[3], (410 - 25) * r, 410)
              /\ IsExactly(sim[c].savings[4], 6 * r, 10)
              /\ IsExactly(sim[c].costs[1], scalars["final_ac"], 1)
              /\ IsExactly(sim[c].costs[2], scalars["total_budget"], 1)
        /\ "table" \in DOMAIN sim =>
              /\ sim["table"][1].savings = 0
              /\ sim["table"][1].total_cost * 100 = scalars["final_ac"]

\* C18 witness: both charts and the table were built for a rework cost whose
\* ImprovedResponse saving is not a whole number of cents.
C18_Witness ==
    /\ Charts = {"chart", "callbacks_chart"}
    /\ "table" \in DOMAIN sim
    /\ scalars["total_rework_cost"] > 0
    /\ sim["chart"].savings[3].part.num > 0
    /\ sim["chart"].savings[4].whole > 0

\* the table and the two charts list the same four scenarios in the same
\* order and show the same amounts at each position
SimulatorAgrees ==
    {"table", "chart", "callbacks_chart"} \subseteq DOMAIN sim =>
        LET table == sim["table"]
            chart == sim["chart"]
            other == sim["callbacks_chart"]
        IN  /\ [k \in DOMAIN table |-> table[k].scenario]
                  = <<"Current Project", "Perfect Quality", "Improved Response Times",
                      "Combined Improvements">>
            /\ chart.x = <<"Current", "Perfect Quality", "Improved Response", "Combined">>
            /\ other.x = <<"Current", "Perfect Quality", "Fast Response", "Combined">>
            /\ \A f \in {"costs", "cost_text", "savings", "savings_text"} :
                  /\ Len(chart[f]) = 4
                  /\ chart[f] = other[f]
            /\ \A k \in 1..4 :
                  /\ table[k].total_cost = chart.cost_text[k]
                  /\ table[k].savings = chart.savings_text[k]
                  /\ Euros(chart.costs[k]) = table[k].total_cost
                  /\ Euros(chart.savings[k]) = table[k].savings

\* C19: the simulator gives four scenarios in the order Current,
\* PerfectQuality, ImprovedResponse, Combined; the table and the chart of
\* either module give the same cost and savings at each position; and an
\* output built again from the same three inputs is the same output.
C19_SimulatorOutputs ==
    [][/\ SimulatorAgrees'
       /\ \A n \in DOMAIN sim : n \in DOMAIN sim' /\ sim'[n] = sim[n]]_vars

\* C19 witness: the table and both charts exist, the ImprovedResponse and the
\* Combined costs differ, and a rounding to whole euros took place.
C19_Witness ==
    /\ {"table", "chart", "callbacks_chart"} \subseteq DOMAIN sim
    /\ sim["chart"].costs[3] # sim["chart"].costs[4]
    /\ sim["chart"].costs[3].part.num > 0
    /\ sim["table"][3].total_cost # sim["table"][4].total_cost

\* ------------------------------------------------------------------------
\* Vocabulary of the properties of the time-series callbacks.
Dates == DOMAIN time_series.data[1]

\* the loaded value of a column at a date: the loaded columns keep the
\* positions they were read into
LoadedAt(label, k) ==
    time_series.data[CHOOSE j \in DOMAIN LoadedColumns : LoadedColumns[j] = label][k]

\* what the claim gives for a ratio: the quotient, or a sentinel (a value
\* with divisor 0) when the divisor is zero
IsRatio(v, a, b) == IF b = 0 THEN v.den = 0 ELSE v = Frac(a, b)

\* the value a derived column must hold at date k
DerivedRight(label, v, k) ==
    LET pv == LoadedAt("planned_value", k)
        evt == LoadedAt("earned_value_traditional", k)
        evq == LoadedAt("earned_value_quality_gated", k)
        ac == LoadedAt("actual_cost", k)
    IN  CASE label = "schedule_variance" -> v = evq - pv
          [] label = "cost_variance" -> v = evq - ac
          [] label = "spi_traditional" -> IsRatio(v, evt, pv)
          [] label = "spi_quality" -> IsRatio(v, evq, pv)
          [] label = "cpi" -> IsRatio(v, evq, ac)

DerivedLabels == {"schedule_variance", "cost_variance", "spi_traditional", "spi_quality", "cpi"}

InCallback(h) == hpc[h] \in {"lookup", "store", "read"}

\* C16: a callback that has started always reaches its return, a date with
\* plannedValue or actualCost zero gets a sentinel for the affected ratio,
\* and every other derived value of every date is the stated difference or
\* quotient.
C16_ZeroDivisorSentinel ==
    /\ \A h \in Handlers :
          InCallback(h) => ENABLED (Lookup(h) \/ Store(h) \/ ReturnFigure(h))
    /\ \A label \in DerivedLabels : \A j \in Positions(time_series, label) :
          \A k \in Dates : DerivedRight(label, time_series.data[j][k], k)
    /\ \A h \in Handlers : hpc[h] = "done" =>
          \A n \in DOMAIN Assigned(hloc[h].cb) : \A k \in Dates :
              DerivedRight(Assigned(hloc[h].cb)[n], hloc[h].figure.y[n][1][k], k)

\* C16 witness: the indices were returned for two dates, one with a zero
\* plannedValue and actualCost and one with neither.
C16_Witness ==
    \E h \in Handlers :
        /\ hpc[h] = "done"
        /\ hloc[h].cb = "update_detailed_performance_indices"
        /\ \E k, m \in Dates :
              /\ LoadedAt("planned_value", k) = 0
              /\ LoadedAt("actual_cost", k) = 0
              /\ LoadedAt("planned_value", m) # 0
              /\ LoadedAt("actual_cost", m) # 0
              /\ hloc[h].figure.y[1][1][k].den = 0
              /\ hloc[h].figure.y[3][1][m].num = 60

\* the figure a callback returns when no other handler is at work
FigureAlone(cb) ==
    [x |-> <<[k \in Dates |-> k]>>,
     y |-> [n \in DOMAIN Assigned(cb) |-> <<Derived(time_series, Assigned(cb)[n])>>]]

\* C20: under every interleaving of the handlers each callback returns the
\* figure it returns when run alone, and no label of the shared table is
\* ever carried by more than one column.
C20_ConcurrentReadsSafe ==
    /\ \A label \in DerivedLabels : Cardinality(Positions(time_series, label)) <= 1
    /\ \A h \in Handlers : hpc[h] = "done" => hloc[h].figure = FigureAlone(hloc[h].cb)

\* ------------------------------------------------------------------------
\* Further properties of the returned tables.
NonDecreasing(R) ==
    \A a, b \in DOMAIN R : a < b => R[a].failure_date <= R[b].failure_date

\* C23: the returned response times and the returned rework cycles are each
\* in non-decreasing order of failure_date, whatever the order of the rows
\* of the log.
C23_ChronologicalOutput ==
    Returned => NonDecreasing(result.response_df) /\ NonDecreasing(result.rework_df)

\* C23 witness: the log lists a later failure before an earlier one and both
\* tables hold two records with different failure dates.
C23_Witness ==
    /\ Returned
    /\ \E a, b \in Failures : a < b /\ TimeOf(a) > TimeOf(b)
    /\ Len(result.response_df) = 2
    /\ Len(result.rework_df) = 2
    /\ result.response_df[1].failure_date < result.response_df[2].failure_date
    /\ result.rework_df[1].failure_date < result.rework_df[2].failure_date

\* C24: the returned tables are decided by the events of the log alone,
\* whatever order equal timestamps are met in: the next_status of a failure's
\* response time is the status of every event that comes first after it, and
\* a failure's rework cycle is the one its earliest later Pass gives.
C24_OrderIndependent ==
    Returned =>
        /\ \A k \in Responded : \A j \in Matching(result.response_df, k) :
              \A n \in NextEvents(k) :
                  result.response_df[j].next_status = quality_data[n].status
        /\ \A k \in Resolved : \A j \in Matching(result.rework_df, k) :
              result.rework_df[j].resolution_date = EarliestTime(LaterPass(k))

\* the records of the response times about the failure a cycle is about
ResponsesOf(w) ==
    {r \in DOMAIN result.response_df :
        /\ result.response_df[r].pk = w.pk
        /\ result.response_df[r].failure_date = w.failure_date}

\* C26: a failure with a rework cycle has a response time, its rework time
\* is at least its response time, and the two are equal exactly when the
\* cycle has no intermediate inspection.
C26_ReworkAtLeastResponse ==
    Returned =>
        \A j \in DOMAIN result.rework_df :
            LET w == result.rework_df[j] IN
            /\ ResponsesOf(w) # {}
            /\ \A r \in ResponsesOf(w) :
                  /\ w.rework_time_hours >= result.response_df[r].response_time_hours
                  /\ (w.rework_time_hours = result.response_df[r].response_time_hours)
                        <=> (w.intermediate_inspections = 0)

\* C26 witness: one cycle is longer than its response time and has an
\* intermediate inspection, another is as long as its response time.
C26_Witness ==
    /\ Returned
    /\ \E j \in DOMAIN result.rework_df : \E r \in ResponsesOf(result.rework_df[j]) :
          /\ result.rework_df[j].rework_time_hours
                > result.response_df[r].response_time_hours
          /\ result.rework_df[j].intermediate_inspections = 1
    /\ \E j \in DOMAIN result.rework_df : \E r \in ResponsesOf(result.rework_df[j]) :
          /\ result.rework_df[j].rework_time_hours
                = result.response_df[r].response_time_hours
          /\ result.rework_df[j].intermediate_inspections = 0

\* C28: every returned duration is positive, the days are the hours over 24,
\* and a failure whose pk has events at its own timestamp but none later has
\* neither a response time nor a rework cycle.
C28_PositiveDurations ==
    Returned =>
        /\ \A j \in DOMAIN result.response_df :
              /\ result.response_df[j].response_time_hours > 0
              /\ result.response_df[j].response_time_days
                    = [num |-> result.response_df[j].response_time_hours, den |-> 24]
        /\ \A j \in DOMAIN result.rework_df :
              /\ result.rework_df[j].rework_time_hours > 0
              /\ result.rework_df[j].rework_time_days
                    = [num |-> result.rework_df[j].rework_time_hours, den |-> 24]
              /\ result.rework_df[j].resolution_date > result.rework_df[j].failure_date
        /\ \A k \in Failures :
              LaterSameKey(k) = {} =>
                  About(result.response_df, k) = {} /\ About(result.rework_df, k) = {}

\* C28 witness: a Pass was recorded at the instant of a failure of its pk;
\* the failure got a response time from a later event and no rework cycle.
C28_Witness ==
    /\ Returned
    /\ \E k \in Failures : \E n \in Rows :
          /\ quality_data[n].pk = quality_data[k].pk
          /\ quality_data[n].status = "Pass"
          /\ TimeOf(n) = TimeOf(k)
          /\ \E j \in Matching(result.response_df, k) :
                result.response_df[j].response_time_hours > 0
    /\ result.rework_df = <<>>

RECURSIVE ReworkHoursOver(_)
\* the hours from each failure of S to its earliest later Pass, summed
ReworkHoursOver(S) ==
    IF S = {} THEN 0
    ELSE LET k == CHOOSE x \in S : TRUE
         IN  (EarliestTime(LaterPass(k)) - TimeOf(k)) \div 3600 + ReworkHoursOver(S \ {k})

\* two failures of one pk that the same first Pass resolves
SharePass(a, b) ==
    /\ a # b
    /\ quality_data[a].pk = quality_data[b].pk
    /\ EarliestTime(LaterPass(a)) = EarliestTime(LaterPass(b))

\* C27: failures of one pk before the same first Pass each have their own
\* rework cycle with the same resolution_date; of two such failures with
\* distinct timestamps the earlier has strictly more intermediate
\* inspections; total_quality_delay is the sum over all the cycles.
C27_SharedResolution ==
    pc = "metrics" =>
        LET W == result.rework_df IN
        /\ Len(W) = Cardinality(Resolved)
        /\ \A a, b \in Resolved : SharePass(a, b) =>
              /\ Matching(W, a) # {}
              /\ Matching(W, b) # {}
              /\ \A j \in Matching(W, a) : \A m \in Matching(W, b) :
                    /\ W[j].resolution_date = W[m].resolution_date
                    /\ TimeOf(a) < TimeOf(b) =>
                          W[j].intermediate_inspections > W[m].intermediate_inspections
        /\ temporal["total_quality_delay"] = ReworkHoursOver(Resolved)

\* C27 witness: two failures at different times were resolved by one Pass;
\* the cycles overlap and the delay counts the shared hour twice.
C27_Witness ==
    /\ pc = "metrics"
    /\ \E a, b \in Resolved : SharePass(a, b) /\ TimeOf(a) < TimeOf(b)
    /\ Len(result.rework_df) = 2
    /\ result.rework_df[1].intermediate_inspections = 1
    /\ result.rework_df[2].intermediate_inspections = 0
    /\ temporal["total_quality_delay"] = 3


\* the columns an inspection row was loaded with
OriginalRow(row) ==
    [pk |-> row.pk, stepId |-> row.stepId, inspectedAt |-> row.inspectedAt,
     status |-> row.status]

OriginalRows(qd) == [k \in DOMAIN qd |-> OriginalRow(qd[k])]

\* the loaded columns of the time-series table with their values
LoadedPart(ts) == [n \in DOMAIN LoadedColumns |-> <<ts.columns[n], ts.data[n]>>]

\* beyond what was loaded there is only the date column of the inspection
\* table and the variance and index columns of the time-series table
OnlyAdditions(qd, ts) ==
    /\ \A k \in DOMAIN qd :
          DOMAIN qd[k] \subseteq {"pk", "stepId", "inspectedAt", "status", "date"}
    /\ \A j \in DOMAIN ts.columns :
          j > Len(LoadedColumns) => ts.columns[j] \in DerivedLabels

\* C21: once the module body has run, no step of a callback or of a
\* tab-creation function changes a loaded column of the inspection table or
\* of the time-series table, the task table, the scalar metrics, the
\* temporal metrics or the three derived datasets; what is written is the
\* date column of the inspection table and the variance and index columns of
\* the time-series table.
C21_LoadedStateKept ==
    [][Serving =>
          /\ OriginalRows(quality_data') = OriginalRows(quality_data)
          /\ LoadedPart(time_series') = LoadedPart(time_series)
          /\ task_progress' = task_progress
          /\ scalars' = scalars
          /\ temporal' = temporal
          /\ result' = result
          /\ OnlyAdditions(quality_data', time_series')]_vars

\* both kinds of callback have written and the simulation tab was built
C21_Witness ==
    /\ Serving
    /\ \A h \in Handlers : hpc[h] = "done"
    /\ \E k \in DOMAIN quality_data :
          /\ "date" \in DOMAIN quality_data[k]
          /\ quality_data[k].inspectedAt # 0
    /\ Len(time_series.columns) > Len(LoadedColumns)
    /\ result.response_df # <<>>
    /\ sim # Unassigned

\* a handler that serves a callback another handler has already served
Repeats(g, h) ==
    /\ g # h
    /\ hpc[h] = "done"
    /\ hpc[g] \in {"lookup", "store", "read", "timeline"}
    /\ hloc[g].cb = hloc[h].cb

\* C22: a second invocation of a callback, made after the first has
\* returned, changes neither shared table at any of its steps and returns
\* the figure data of the first invocation.
C22_RepeatedCallSame ==
    [][\A g, h \in Handlers :
          Repeats(g, h) =>
             /\ time_series' = time_series
             /\ quality_data' = quality_data
             /\ hpc'[g] = "done" => hloc'[g].figure = hloc[h].figure]_vars

\* the same callback has returned twice with a figure that has points
C22_Witness ==
    /\ \A h \in Handlers : hpc[h] = "done"
    /\ hloc["h1"].cb = hloc["h2"].cb
    /\ hloc["h1"].cb = "update_detailed_variance_analysis"
    /\ hloc["h1"].figure.y # <<>>
    /\ Len(time_series.columns) > Len(LoadedColumns)


\* the tabs with a KPI ratio, as built so far
RatioTabs == DOMAIN sim \cap {"quality_tab", "tasks_tab"}

\* C25: a tab-creation function that was called returns its content, also
\* when the log has no Offered event (quality tab) or the task table has no
\* row (task tab).
C25_TabsReturnContent == \A tab \in RatioTabs : sim[tab].outcome = "returned"


\* ------------------------------------------------------------------------
\* Further properties of the scenario simulator.
\* the sum of two amounts
Plus(a, b) ==
    LET n == a.part.num * b.part.den + b.part.num * a.part.den
        d == a.part.den * b.part.den
    IN  [whole |-> a.whole + b.whole + n \div d, part |-> Reduced(Frac(n % d, d))]

\* a <= b on amounts
AtMost(a, b) ==
    \/ a.whole < b.whole
    \/ a.whole = b.whole /\ a.part.num * b.part.den <= b.part.num * a.part.den

\* C29: in the chart of either module the projected cost and the savings of
\* PerfectQuality, of ImprovedResponse and of Combined add up to
\* totalBudget + totalReworkCost exactly, and for a rework cost that is not
\* negative the savings are in the order
\* Current (0) <= Combined <= ImprovedResponse <= PerfectQuality.
C29_CostPlusSavings ==
    \A c \in Charts :
        LET costs == sim[c].costs
            savings == sim[c].savings
            r == scalars["total_rework_cost"]
        IN  /\ \A k \in 2..4 :
                  Plus(costs[k], savings[k]) = Mixed(scalars["total_budget"] + r, 1)
            /\ r >= 0 =>
                  /\ savings[1] = Mixed(0, 1)
                  /\ AtMost(savings[1], savings[4])
                  /\ AtMost(savings[4], savings[3])
                  /\ AtMost(savings[3], savings[2])

\* both charts exist for a rework cost above 0 whose ImprovedResponse share
\* is not a whole number of cents, and the three savings differ
C29_Witness ==
    /\ Charts = {"chart", "callbacks_chart"}
    /\ scalars["total_rework_cost"] > 0
    /\ sim["callbacks_chart"].costs[3].part.num > 0
    /\ ~AtMost(sim["chart"].savings[3], sim["chart"].savings[4])
    /\ ~AtMost(sim["callbacks_chart"].savings[2], sim["callbacks_chart"].savings[3])


\* ------------------------------------------------------------------------
\* Properties of the tab routing.
SevenTabs ==
    {"executive", "detailed", "quality", "temporal", "bottlenecks", "tasks", "simulation"}

\* the routing callbacks that have answered a request
Routers == DOMAIN hloc \cap {"render_tab_content", "callbacks_render_tab_content"}

\* C30: the routing callback of either module answers every request: for one
\* of the seven tab values it returns the content of that tab's own
\* creation function, for every other value it returns a placeholder that
\* names the value, and it never raises.
C30_RoutingTotal ==
    \A r \in Routers :
        /\ hloc[r].outcome = "returned"
        /\ hpc[r] \in SevenTabs =>
              /\ hloc[r].content = "tab"
              /\ \A other \in SevenTabs \ {hpc[r]} :
                    hloc[r].of \notin {TabFunction[other], tab_map[other]}
        /\ hpc[r] \notin SevenTabs =>
              /\ hloc[r].content = "placeholder"
              /\ hloc[r].of = hpc[r]

====
